---- MODULE Spec2Model ----
(***************************************************************************)
(* State-machine model of three lnreader source plugins:                   *)
(*   JadeScrolls          (counted pages, fetchJson, novelIdCache)          *)
(*   NovelsHub            (skip/take pagination)                            *)
(*   Dreamy Translations  (embedded JSON in HTML, no pagination)            *)
(* Every await of the TypeScript code is a step boundary: the upstream's   *)
(* answer is put in flight by one action and consumed by the next.         *)
(***************************************************************************)
EXTENDS Integers, Sequences, FiniteSets, TLC

\* ------------------------------------------------------------------ bounds
\* longest chapter array in one upstream response
MaxChapters == 2
\* largest chapter number the upstream uses
MaxNumber == 2
\* largest page number a caller asks for
MaxPageNo == 3

\* ------------------------------------------------------------ plain values
Undefined == "undefined"
NoHeader == "null"
Procs == {1, 2}
Paths == {"p1", "p2"}
Pages == {"2"}
Terms == {"q"}
PageNos == 0..MaxPageNo
Locations == {"locA", "locB"}
Statuses == {200, 301, 304, 404}
ContentLengths == {NoHeader, "0"}

\* The id the upstream holds for a novel path (one entity per path).
UpstreamId(path) == IF path = "p1" THEN "id1" ELSE "id2"

\* --------------------------------------------------------------- sequences
RECURSIVE SeqsUpTo(_, _)
SeqsUpTo(S, n) ==
  IF n = 0 THEN {<<>>}
  ELSE LET shorter == SeqsUpTo(S, n - 1)
       IN shorter \cup {Append(s, x) : s \in {t \in shorter : Len(t) = n - 1}, x \in S}

MapSeq(s, F(_)) == [i \in 1..Len(s) |-> F(s[i])]

\* ------------------------------------------------------- JadeScrolls: data
\* A JadeChapter of the upstream: chapter_number and type (FREE or not).
JadeChapter(n, type) == [chapter_number |-> n, type |-> type]
\* The `data` arrays the upstream serves for a chapter-list page: empty, in
\* order, out of order, with a repeated number, with chapters that are not free.
JadeChapterPages ==
  { <<>>,
    <<JadeChapter(1, "FREE"), JadeChapter(2, "FREE")>>,
    <<JadeChapter(2, "FREE"), JadeChapter(1, "FREE")>>,
    <<JadeChapter(1, "FREE"), JadeChapter(1, "FREE")>>,
    <<JadeChapter(1, "PAID"), JadeChapter(2, "FREE"), JadeChapter(3, "PAID")>> }

\* A parsed JSON value, as far as the plugin reads it.
EmptyObj ==
  [shape |-> "empty", id |-> Undefined, data |-> <<>>, total_pages |-> 0, novels |-> <<>>,
   content |-> Undefined, author_note |-> Undefined]
NovelJson(id) ==
  [shape |-> "novel", id |-> id, data |-> <<>>, total_pages |-> 0, novels |-> <<>>,
   content |-> Undefined, author_note |-> Undefined]
ChaptersJson(data, pages) ==
  [shape |-> "chapters", id |-> Undefined, data |-> data, total_pages |-> pages, novels |-> <<>>,
   content |-> Undefined, author_note |-> Undefined]
SearchJson(novels) ==
  [shape |-> "search", id |-> Undefined, data |-> <<>>, total_pages |-> 0, novels |-> novels,
   content |-> Undefined, author_note |-> Undefined]
\* PaginatedResponse<JadeNovel> of novels/list
ListJson(data) ==
  [shape |-> "list", id |-> Undefined, data |-> data, total_pages |-> 1, novels |-> <<>>,
   content |-> Undefined, author_note |-> Undefined]
\* JadeChapterContent
ChapterJson(content, author_note) ==
  [shape |-> "chapter", id |-> Undefined, data |-> <<>>, total_pages |-> 0, novels |-> <<>>,
   content |-> content, author_note |-> author_note]

\* A JadeNovel of a listing, as far as popularNovels reads it; cover_image may
\* be absent.
JadeListings ==
  { <<>>,
    <<[slug |-> "p1", cover_image |-> "cover1"]>>,
    <<[slug |-> "p1", cover_image |-> "cover1"], [slug |-> "p2", cover_image |-> Undefined]>> }

\* What the upstream can serve as JSON for a fetchJson call of the given kind.
Payloads(want, path) ==
  CASE want = "detail" -> {NovelJson(UpstreamId(path))}
    [] want = "popular" -> {ListJson(d) : d \in JadeListings}
    [] want = "chapter" ->
         {ChapterJson(c, n) : c \in {Undefined, "", "text"}, n \in {Undefined, "note"}}
    [] want = "chapters" ->
         {ChaptersJson(d, 2) : d \in JadeChapterPages}
    [] OTHER -> {SearchJson(s) : s \in {<<>>, <<"p1">>, <<"p1", "p2">>}}

\* A response of fetchApi in flight: rejected, or resolved with these headers.
NoRes == [net |-> "none", status |-> 0, location |-> NoHeader, contentLength |-> NoHeader]
Rejected == [net |-> "rejected", status |-> 0, location |-> NoHeader, contentLength |-> NoHeader]
Responses ==
  {Rejected} \cup
  [net : {"resolved"}, status : Statuses, location : Locations \cup {NoHeader},
   contentLength : ContentLengths]

\* The outcome of res.text() in flight.
NoText == [kind |-> "none", value |-> EmptyObj]
Texts(want, path) ==
  {[kind |-> k, value |-> EmptyObj] : k \in {"rejected", "empty", "malformed"}}
  \cup {[kind |-> "json", value |-> v] : v \in Payloads(want, path) \cup {EmptyObj}}

\* URLs
DetailUrl(path) == <<"novels?slug", path, "">>
ListUrl(id, page) == <<"chapters/list", id, page>>
SearchUrl(term) == <<"public/search", term, "">>
LocationUrl(loc) == <<"location", loc, "">>
NoUrl == <<"", "", "">>

VARIABLES
  novelIdCache,   \* JadeScrolls: novelPath -> novel id, Undefined when absent
  jade,           \* JadeScrolls: the calls in progress, one per slot
  nh,             \* NovelsHub: the call in progress
  dt,             \* Dreamy Translations: the call in progress
  fj,             \* one fetchJson call on its own, with what it last received
  aux             \* one call of a helper function: its name, argument and result

vars == <<novelIdCache, jade, nh, dt, fj, aux>>

AuxIdle == [fn |-> "idle", arg |-> <<>>, out |-> <<>>]

FJIdle ==
  [phase |-> "idle", want |-> "", path |-> "", url |-> NoUrl, res |-> NoRes,
   text |-> NoText, value |-> EmptyObj, parsed |-> FALSE, error |-> "none"]

\* popularNovels filters of JadeScrolls: each value possibly absent
JadeFilters ==
  [sort : {Undefined, "weekly_views", "rating"}, genre : {Undefined, "", "g1"},
   novelLead : {Undefined, "", "MALE"}, type : {Undefined, "", "ORIGINAL"}]
NoFilters == [sort |-> Undefined, genre |-> Undefined, novelLead |-> Undefined, type |-> Undefined]
\* the URLSearchParams of a novels/list request; Undefined where a key is not set
NoParams ==
  [page |-> 0, sortBy |-> Undefined, genre |-> Undefined, novelLead |-> Undefined,
   type |-> Undefined]

IdleCall ==
  [op |-> "idle", pc |-> "idle", phase |-> "none", url |-> NoUrl, path |-> "",
   page |-> "", pageNo |-> 1, novelId |-> Undefined, calls |-> <<>>, chapters |-> <<>>, totalPages |-> 0,
   novels |-> <<>>, error |-> "none",
   filters |-> NoFilters, params |-> NoParams, got |-> "none", html |-> <<>>]

\* ---------------------------------------------------------- NovelsHub: data
maxTake == 999
\* `undefined` where the code expects a number
NoNumber == -1
\* totalChapterCount values the upstream reports
Totals == {0, 999, 1000, 1999}

\* A ChapterItem of NovelsHub, as far as its order goes.
NHItem(n) == [chapterNumber |-> n]
NHBatches == SeqsUpTo(1..MaxNumber, MaxChapters)

\* The JSON of a chapters response: totalChapterCount may be absent; an absent
\* post.chapters reads as the empty array (`|| []`).
NHErrorJson ==
  [totalChapterCount |-> NoNumber, hasPost |-> FALSE, chapters |-> <<>>, posts |-> <<>>,
   content |-> Undefined, hasError |-> TRUE, isLocked |-> FALSE]
NHChaptersJsons ==
  {[totalChapterCount |-> t, hasPost |-> TRUE, chapters |-> b, posts |-> <<>>,
    content |-> Undefined, hasError |-> FALSE, isLocked |-> FALSE] :
     t \in Totals \cup {NoNumber}, b \in NHBatches}
NHPostJson ==
  [totalChapterCount |-> NoNumber, hasPost |-> TRUE, chapters |-> <<>>, posts |-> <<>>,
   content |-> Undefined, hasError |-> FALSE, isLocked |-> FALSE]
NHPosts == [slug : {"s1", "s2"}, isNovel : BOOLEAN]
NHQueryJsons ==
  {[totalChapterCount |-> NoNumber, hasPost |-> FALSE, chapters |-> <<>>, posts |-> q,
    content |-> Undefined, hasError |-> FALSE, isLocked |-> FALSE] :
     q \in SeqsUpTo(NHPosts, 2)}
\* The JSON of a chapter response: data.chapter.content, data.error and
\* data.chapter.isLocked, each possibly absent.
NHChapterJsons ==
  {[totalChapterCount |-> NoNumber, hasPost |-> FALSE, chapters |-> <<>>, posts |-> <<>>,
    content |-> c, hasError |-> e, isLocked |-> l] :
     c \in {Undefined, "", "text"}, e \in BOOLEAN, l \in BOOLEAN}

\* What response.json() can resolve to: an HTTP error response carries an error
\* object; a successful one the payload of the endpoint (or an object without it).
NHJsons(pc, ok) ==
  IF ~ok THEN {NHErrorJson}
  ELSE {NHErrorJson} \cup
       (CASE pc = "post" -> {NHPostJson}
          [] pc = "chapters" -> NHChaptersJsons
          [] pc = "chapter" -> NHChapterJsons
          [] OTHER -> NHQueryJsons)

\* popularNovels filters of NovelsHub: status and genres, each possibly absent
NoGenres == [has |-> FALSE, ids |-> <<>>]
Genres(ids) == [has |-> TRUE, ids |-> ids]
NHFilters ==
  [status : {Undefined, "", "ONGOING"}, genres : {NoGenres, Genres(<<>>), Genres(<<"1", "2">>)}]
NHNoFilters == [status |-> Undefined, genres |-> NoGenres]
\* the query of a popularNovels request; Undefined where a key is not written
NHNoParams == [page |-> 0, seriesStatus |-> Undefined, genreIds |-> <<>>]

NHIdle ==
  [op |-> "idle", pc |-> "idle", phase |-> "none", pageNo |-> 1, ok |-> TRUE, skip |-> 0,
   totalChapterCount |-> 0, rawChapters |-> <<>>, chapters |-> <<>>,
   requests |-> <<>>, errAt |-> 0, novels |-> <<>>, error |-> "none",
   filters |-> NHNoFilters, params |-> NHNoParams, got |-> "none", html |-> ""]

\* ------------------------------------------------ Dreamy Translations: data
\* most chapter entries in one novel page
MaxEntries == 3

\* The novel records embedded in the series page, in body order, with the
\* secondary fields found after each anchor.
DTRecords ==
  { [id |-> "7", title |-> "B", slug |-> "a", totalChapters |-> 3, viewCount |-> 0,
     lastUpdatedAt |-> 2],
    [id |-> "8", title |-> "A", slug |-> "b", totalChapters |-> 0, viewCount |-> 5,
     lastUpdatedAt |-> 1],
    [id |-> "9", title |-> "C", slug |-> "a", totalChapters |-> 5, viewCount |-> 1,
     lastUpdatedAt |-> 3] }
DTSeriesBodies == SeqsUpTo(DTRecords, 2)

\* The chapter entries embedded in a novel page, in body order.
DTEntries == [index : 0..MaxNumber, title : {"x", "y"}, status : {"published", "draft"}]
DTNovelBodies == SeqsUpTo(DTEntries, MaxEntries)

\* illustrationData.counts: novel id -> number of illustrations
DTCounts == { {}, {<<"7", 2>>}, {<<"8", 1>>, <<"9", 4>>} }

\* popularNovels options: showLatestNovels, filters.sort.value and
\* filters.illustrated.value, each possibly absent.
DTSorts == {Undefined, "title", "chapters", "views", "updates", "illustrations"}
DTSwitch == {Undefined, "true", "false"}

DTNoOptions == [showLatestNovels |-> FALSE, sort |-> Undefined, illustrated |-> Undefined]

\* What parseChapter finds in a chapter page: a [class*="prose"] container whose
\* cleaned html is at most 100 characters ("short") or longer, and an embedded
\* \"content\" field whose text is at most 100 characters or longer.
DTChapterBodies == [prose : {"none", "short", "long"}, embedded : {"none", "short", "long"}]

DTIdle ==
  [op |-> "idle", pc |-> "idle", pageNo |-> 1, sortBy |-> "", illustratedOnly |-> FALSE,
   term |-> "", body |-> <<>>, entries |-> <<>>, haveCounts |-> FALSE, illustrationCounts |-> {},
   requests |-> <<>>, novels |-> <<>>, chapters |-> <<>>, error |-> "none",
   options |-> DTNoOptions, got |-> "none", failed |-> FALSE, html |-> ""]

Init ==
  /\ novelIdCache = [p \in Paths |-> Undefined]
  /\ jade = [p \in Procs |-> IdleCall]
  /\ nh = NHIdle
  /\ dt = DTIdle
  /\ fj = FJIdle
  /\ aux = AuxIdle

\* Plugins share no state: the model interleaves the calls of one plugin only.
JadeIdle == \A p \in Procs : jade[p].op = "idle"

\* ------------------------------------------------- JadeScrolls: operations
\* mapChapters: keep the FREE chapters, in upstream order.
IsFree(ch) == ch.type = "FREE"
mapChapters(chapters, novelId) ==
  LET item(ch) == [path |-> novelId, chapterNumber |-> ch.chapter_number]
  IN MapSeq(SelectSeq(chapters, IsFree), item)

\* A call issues fetchJson(url): the request goes out and the call awaits.
Await(c, pc, url) ==
  [c EXCEPT !.pc = pc, !.phase = "fetch", !.url = url, !.calls = Append(@, url)]

Throw(c, err) == [c EXCEPT !.pc = "failed", !.phase = "none", !.url = NoUrl, !.error = err]

Resolve(c) == [c EXCEPT !.pc = "done", !.phase = "none", !.url = NoUrl]

parseNovel(p, path) ==
  /\ jade[p].op = "idle"
  /\ nh.op = "idle" /\ dt.op = "idle" /\ fj.phase = "idle" /\ aux.fn = "idle"
  /\ jade' = [jade EXCEPT ![p] =
       Await([IdleCall EXCEPT !.op = "parseNovel", !.path = path], "detail", DetailUrl(path))]
  /\ UNCHANGED <<aux, novelIdCache, nh, dt, fj>>

parsePage(p, path, page) ==
  /\ jade[p].op = "idle"
  /\ nh.op = "idle" /\ dt.op = "idle" /\ fj.phase = "idle" /\ aux.fn = "idle"
  /\ LET novelId == novelIdCache[path]
         c == [IdleCall EXCEPT !.op = "parsePage", !.path = path, !.page = page,
                               !.novelId = novelId]
     IN jade' = [jade EXCEPT ![p] =
          IF novelId = Undefined
          THEN Await(c, "detail", DetailUrl(path))
          ELSE Await(c, "chapters", ListUrl(novelId, page))]
  /\ UNCHANGED <<aux, novelIdCache, nh, dt, fj>>

\* Faulty variant: the page guard is off by one.
JS_searchNovels_FromPage3(p, term, pageNo) ==
  /\ jade[p].op = "idle"
  /\ nh.op = "idle" /\ dt.op = "idle" /\ fj.phase = "idle" /\ aux.fn = "idle"
  /\ LET c == [IdleCall EXCEPT !.op = "searchNovels", !.pageNo = pageNo]
     IN jade' = [jade EXCEPT ![p] =
          IF pageNo > 2
          THEN Resolve(c)
          ELSE Await(c, "search", SearchUrl(term))]
  /\ UNCHANGED <<aux, novelIdCache, nh, dt, fj>>

JS_searchNovels(p, term, pageNo) ==
  /\ jade[p].op = "idle"
  /\ nh.op = "idle" /\ dt.op = "idle" /\ fj.phase = "idle" /\ aux.fn = "idle"
  /\ LET c == [IdleCall EXCEPT !.op = "searchNovels", !.pageNo = pageNo]
     IN jade' = [jade EXCEPT ![p] =
          IF pageNo > 1
          THEN Resolve(c)
          ELSE Await(c, "search", SearchUrl(term))]
  /\ UNCHANGED <<aux, novelIdCache, nh, dt, fj>>

\* `x ? ... : ...` / `x || ...` on a string that may be absent
Truthy(x) == x # Undefined /\ x # ""

\* lines 91-106: the query of a novels/list request
ListParams(pageNo, filters) ==
  [page |-> pageNo,
   sortBy |-> IF Truthy(filters.sort) THEN filters.sort ELSE "weekly_views",
   genre |-> IF Truthy(filters.genre) THEN filters.genre ELSE Undefined,
   novelLead |-> IF Truthy(filters.novelLead) THEN filters.novelLead ELSE Undefined,
   type |-> IF Truthy(filters.type) THEN filters.type ELSE Undefined]
PopularUrl == <<"novels/list", "", "">>
ChapterUrl(chapterPath) == <<"chapters", chapterPath, "">>

JS_popularNovels(p, pageNo, filters) ==
  /\ jade[p].op = "idle"
  /\ nh.op = "idle" /\ dt.op = "idle" /\ fj.phase = "idle" /\ aux.fn = "idle"
  /\ jade' = [jade EXCEPT ![p] =
       Await([IdleCall EXCEPT !.op = "popularNovels", !.pageNo = pageNo, !.filters = filters,
                              !.params = ListParams(pageNo, filters)],
             "popular", PopularUrl)]
  /\ UNCHANGED <<aux, novelIdCache, nh, dt, fj>>

JS_parseChapter(p, chapterPath) ==
  /\ jade[p].op = "idle"
  /\ nh.op = "idle" /\ dt.op = "idle" /\ fj.phase = "idle" /\ aux.fn = "idle"
  /\ jade' = [jade EXCEPT ![p] =
       Await([IdleCall EXCEPT !.op = "parseChapter", !.path = chapterPath],
             "chapter", ChapterUrl(chapterPath))]
  /\ UNCHANGED <<aux, novelIdCache, nh, dt, fj>>

\* popularNovels after the listing is returned: json.data.map(...)
popularNovelsResult(c, json) ==
  IF json.shape # "list"
  THEN Throw([c EXCEPT !.got = json.shape], "type")     \* json.data.map
  ELSE Resolve([c EXCEPT !.got = IF json.data = <<>> THEN "empty" ELSE json.shape,
                         !.novels = MapSeq(json.data, LAMBDA novel :
                                      [path |-> novel.slug, cover |-> novel.cover_image])])

\* parseChapter after the chapter is returned: content || '', then the note
parseChapterResult(c, json) ==
  LET html == IF Truthy(json.content) THEN <<json.content>> ELSE <<>>
      note == IF Truthy(json.author_note)
              THEN <<"<hr/><b>Author's Note:</b><br/>", json.author_note>> ELSE <<>>
  IN Resolve([c EXCEPT !.got = IF Truthy(json.content) THEN "content" ELSE "empty",
                       !.html = html \o note])

\* The code that runs when fetchJson returns json to the awaiting call.
parseNovelDetail(c, json) ==
  IF json.shape # "novel"
  THEN Throw(c, "type")                                 \* novel.genres.map
  ELSE Await([c EXCEPT !.novelId = json.id], "chapters", ListUrl(json.id, "1"))

parseNovelChapters(c, json) ==
  IF json.shape # "chapters"
  THEN Throw(c, "type")                                 \* chapJson.meta.total_pages
  ELSE Resolve([c EXCEPT !.totalPages = json.total_pages,
                         !.chapters = mapChapters(json.data, c.novelId)])

parsePageDetail(c, json) ==
  Await([c EXCEPT !.novelId = json.id], "chapters", ListUrl(json.id, c.page))

parsePageChapters(c, json) ==
  IF json.shape # "chapters"
  THEN Throw(c, "type")                                 \* chapters.filter
  ELSE Resolve([c EXCEPT !.chapters = mapChapters(json.data, c.novelId)])

searchNovelsResult(c, json) ==
  Resolve([c EXCEPT !.got = IF json.novels = <<>> THEN "empty" ELSE json.shape,
                    !.novels = json.novels])

Continue(c, json) ==
  CASE c.op = "parseNovel" /\ c.pc = "detail" -> parseNovelDetail(c, json)
    [] c.op = "parseNovel" /\ c.pc = "chapters" -> parseNovelChapters(c, json)
    [] c.op = "parsePage" /\ c.pc = "detail" -> parsePageDetail(c, json)
    [] c.op = "parsePage" /\ c.pc = "chapters" -> parsePageChapters(c, json)
    [] c.op = "popularNovels" -> popularNovelsResult(c, json)
    [] c.op = "parseChapter" -> parseChapterResult(c, json)
    [] OTHER -> searchNovelsResult(c, json)

\* Faulty variant: parsePage forgets to store the id it resolved.
CacheAfter_ParseNovelOnly(c, json) ==
  IF c.pc = "detail" /\ c.op = "parseNovel"
  THEN [novelIdCache EXCEPT ![c.path] = json.id]
  ELSE novelIdCache

\* Faulty variant: the cache is one slot, not a map keyed by novel path.
CacheAfter_OneSlot(c, json) ==
  IF c.pc = "detail" THEN [path \in Paths |-> json.id] ELSE novelIdCache

\* Both detail continuations write the cache before anything else.
CacheAfter(c, json) ==
  IF c.pc = "detail" THEN [novelIdCache EXCEPT ![c.path] = json.id] ELSE novelIdCache

Return(p, json) ==
  /\ jade' = [jade EXCEPT ![p] = Continue(jade[p], json)]
  /\ novelIdCache' = CacheAfter(jade[p], json)
  /\ UNCHANGED <<aux, nh, dt, fj>>

Raise(p, err) ==
  /\ jade' = [jade EXCEPT ![p] = Throw(@, err)]
  /\ UNCHANGED <<aux, novelIdCache, nh, dt, fj>>

\* ---------------------------------------------------------------- fetchJson
IsRedirect(res) == res.status >= 300 /\ res.status < 400 /\ res.location # NoHeader
IsNoContent(res) == res.status = 304 \/ res.contentLength = "0"

\* Faulty variant: status 304 is not treated as "no content".
fetchJsonOnResponse_No304(res) ==
  IF res.net = "rejected" THEN "throw"
  ELSE IF IsRedirect(res) THEN "redirect"
  ELSE IF res.contentLength = "0" THEN "empty"
  ELSE "text"

\* What fetchJson does with the settled `await fetchApi(url, ...)`.
fetchJsonOnResponse(res) ==
  IF res.net = "rejected" THEN "throw"
  ELSE IF IsRedirect(res) THEN "redirect"
  ELSE IF IsNoContent(res) THEN "empty"
  ELSE "text"

\* What fetchJson does with the settled `await res.text()`.
fetchJsonOnText(text) ==
  CASE text.kind = "rejected" -> "throw"
    [] text.kind = "empty" -> "empty"
    [] text.kind = "malformed" -> "parseError"
    [] OTHER -> "parsed"

\* The pending fetchApi of call p settles and fetchJson runs to its next await.
fetchJson(p) ==
  /\ jade[p].phase = "fetch"
  /\ \E res \in Responses :
       LET todo == fetchJsonOnResponse(res)
       IN CASE todo = "throw" -> Raise(p, "network")
            [] todo = "redirect" ->
                 /\ jade' = [jade EXCEPT ![p].url = LocationUrl(res.location)]
                 /\ UNCHANGED <<aux, novelIdCache, nh, dt, fj>>
            [] todo = "empty" -> Return(p, EmptyObj)
            [] OTHER ->
                 /\ jade' = [jade EXCEPT ![p].phase = "text"]
                 /\ UNCHANGED <<aux, novelIdCache, nh, dt, fj>>

\* The pending res.text() of call p settles and fetchJson runs to its end.
fetchJsonText(p) ==
  /\ jade[p].phase = "text"
  /\ \E text \in Texts(jade[p].pc, jade[p].path) :
       LET todo == fetchJsonOnText(text)
       IN CASE todo = "throw" -> Raise(p, "network")
            [] todo = "empty" -> Return(p, EmptyObj)
            [] todo = "parseError" -> Raise(p, "parse")
            [] OTHER -> Return(p, text.value)

\* The caller takes the result (or the error) of a finished call.
Finish(p) ==
  /\ jade[p].pc \in {"done", "failed"}
  /\ jade' = [jade EXCEPT ![p] = IdleCall]
  /\ UNCHANGED <<aux, novelIdCache, nh, dt, fj>>

\* fetchJson<T>(url), called on its own: the same code, keeping the response and
\* the body text it last received.
FJ_call(want, path) ==
  /\ fj.phase = "idle" /\ dt.op = "idle" /\ nh.op = "idle" /\ aux.fn = "idle"
  /\ \A p \in Procs : jade[p].op = "idle"
  /\ fj' = [FJIdle EXCEPT !.phase = "fetch", !.want = want, !.path = path,
                          !.url = IF want = "detail" THEN DetailUrl(path) ELSE SearchUrl("q")]
  /\ UNCHANGED <<aux, novelIdCache, jade, nh, dt>>

FJ_fetchApi ==
  /\ fj.phase = "fetch"
  /\ \E res \in Responses :
       LET todo == fetchJsonOnResponse(res)
           c == [fj EXCEPT !.res = res]
       IN fj' = CASE todo = "throw" -> [c EXCEPT !.phase = "threw", !.error = "network"]
                  [] todo = "redirect" -> [c EXCEPT !.url = LocationUrl(res.location)]
                  [] todo = "empty" -> [c EXCEPT !.phase = "returned", !.value = EmptyObj]
                  [] OTHER -> [c EXCEPT !.phase = "text"]
  /\ UNCHANGED <<aux, novelIdCache, jade, nh, dt>>

FJ_text ==
  /\ fj.phase = "text"
  /\ \E text \in Texts(fj.want, fj.path) :
       LET todo == fetchJsonOnText(text)
           c == [fj EXCEPT !.text = text]
       IN fj' = CASE todo = "throw" -> [c EXCEPT !.phase = "threw", !.error = "network"]
                  [] todo = "empty" -> [c EXCEPT !.phase = "returned", !.value = EmptyObj]
                  [] todo = "parseError" ->
                       [c EXCEPT !.phase = "threw", !.error = "parse", !.parsed = TRUE]
                  [] OTHER ->
                       [c EXCEPT !.phase = "returned", !.value = text.value, !.parsed = TRUE]
  /\ UNCHANGED <<aux, novelIdCache, jade, nh, dt>>

FJ_Finish ==
  /\ fj.phase \in {"returned", "threw"}
  /\ fj' = FJIdle
  /\ UNCHANGED <<aux, novelIdCache, jade, nh, dt>>

FetchJsonNext ==
  \/ \E want \in {"detail", "search"}, path \in Paths : FJ_call(want, path)
  \/ FJ_fetchApi
  \/ FJ_text
  \/ FJ_Finish

JadeNext ==
  \E p \in Procs :
    \/ \E path \in Paths : parseNovel(p, path)
    \/ \E path \in Paths, page \in Pages : parsePage(p, path, page)
    \/ \E term \in Terms, pageNo \in PageNos : JS_searchNovels(p, term, pageNo)
    \/ fetchJson(p)
    \/ fetchJsonText(p)
    \/ Finish(p)

\* ------------------------------------------------------ NovelsHub: the code
\* `x || 0`
OrZero(x) == IF x = NoNumber THEN 0 ELSE x

\* Array.prototype.sort with (a, b) => a.chapterNumber - b.chapterNumber: stable.
RECURSIVE InsertByNumber(_, _)
InsertByNumber(sorted, ch) ==
  IF sorted = <<>> THEN <<ch>>
  ELSE IF Head(sorted).chapterNumber <= ch.chapterNumber
       THEN <<Head(sorted)>> \o InsertByNumber(Tail(sorted), ch)
       ELSE <<ch>> \o sorted

RECURSIVE SortByNumber(_)
SortByNumber(s) ==
  IF s = <<>> THEN <<>>
  ELSE InsertByNumber(SortByNumber(SubSeq(s, 1, Len(s) - 1)), s[Len(s)])

NHAwait(c, pc, url) ==
  [c EXCEPT !.pc = pc, !.phase = "fetch", !.requests = Append(@, url)]
NHThrow(c, err) == [c EXCEPT !.pc = "failed", !.phase = "none", !.error = err]
NHResolve(c) == [c EXCEPT !.pc = "done", !.phase = "none"]

NHPostUrl(path) == <<"post", 0>>
NHChaptersUrl(skip) == <<"chapters", skip, maxTake>>
NHQueryUrl(term) == <<"query", 0>>

NH_parseNovel(path) ==
  /\ nh.op = "idle" /\ JadeIdle /\ dt.op = "idle" /\ fj.phase = "idle" /\ aux.fn = "idle"
  /\ nh' = NHAwait([NHIdle EXCEPT !.op = "parseNovel"], "post", NHPostUrl(path))
  /\ UNCHANGED <<aux, novelIdCache, jade, dt, fj>>

NH_searchNovels(term, pageNo) ==
  /\ nh.op = "idle" /\ JadeIdle /\ dt.op = "idle" /\ fj.phase = "idle" /\ aux.fn = "idle"
  /\ LET c == [NHIdle EXCEPT !.op = "searchNovels", !.pageNo = pageNo]
     IN nh' = IF pageNo > 1 THEN NHResolve(c) ELSE NHAwait(c, "search", NHQueryUrl(term))
  /\ UNCHANGED <<aux, novelIdCache, jade, dt, fj>>

\* lines 56-71: the query of the listing request
NHParams(pageNo, filters) ==
  [page |-> pageNo,
   seriesStatus |-> IF Truthy(filters.status) THEN filters.status ELSE "",
   genreIds |-> IF filters.genres.has /\ Len(filters.genres.ids) > 0
                THEN filters.genres.ids ELSE <<>>]
NHListUrl == <<"query?page", 0>>
NHChapterUrl(path) == <<"chapter", 0>>

NH_popularNovels(pageNo, filters) ==
  /\ nh.op = "idle" /\ JadeIdle /\ dt.op = "idle" /\ fj.phase = "idle" /\ aux.fn = "idle"
  /\ nh' = NHAwait([NHIdle EXCEPT !.op = "popularNovels", !.pageNo = pageNo,
                                  !.filters = filters,
                                  !.params = NHParams(pageNo, filters)],
                   "popular", NHListUrl)
  /\ UNCHANGED <<aux, novelIdCache, jade, dt, fj>>

NH_parseChapter(path) ==
  /\ nh.op = "idle" /\ JadeIdle /\ dt.op = "idle" /\ fj.phase = "idle" /\ aux.fn = "idle"
  /\ nh' = NHAwait([NHIdle EXCEPT !.op = "parseChapter"], "chapter", NHChapterUrl(path))
  /\ UNCHANGED <<aux, novelIdCache, jade, dt, fj>>

\* popularNovels after `await response.json()`: the posts that are novels
NHAfterPopular(c, json) ==
  LET posts == SelectSeq(json.posts, LAMBDA novel : novel.isNovel)
  IN NHResolve([c EXCEPT !.got = IF json.posts = <<>> THEN "empty" ELSE "list",
                         !.novels = MapSeq(posts, LAMBDA novel : novel.slug)])

\* parseChapter after `await response.json()`
NHAfterChapter(c, json) ==
  NHResolve([c EXCEPT
    !.got = IF Truthy(json.content) THEN "content" ELSE "empty",
    !.html = IF Truthy(json.content) THEN json.content
             ELSE IF json.hasError \/ json.isLocked
                  THEN "<p>This chapter is locked or requires purchase.</p>"
                  ELSE "<p>Chapter content not available.</p>"])

\* A chapters fetch that ends in a network or HTTP error is remembered by number.
NHNoteError(c) ==
  IF c.pc = "chapters" /\ c.errAt = 0 THEN [c EXCEPT !.errAt = Len(c.requests) - 1] ELSE c

\* `await fetchApi(url, ...)` settles: it rejects on a network failure and
\* resolves with the response otherwise, whatever its status.
NH_fetchApi ==
  /\ nh.phase = "fetch"
  /\ \/ nh' = NHThrow(NHNoteError(nh), "network")
     \/ \E ok \in BOOLEAN :
          nh' = [(IF ok THEN nh ELSE NHNoteError(nh)) EXCEPT !.phase = "json", !.ok = ok]
  /\ UNCHANGED <<aux, novelIdCache, jade, dt, fj>>

\* parseNovel after `const postData = await postResponse.json()`
NHAfterPost(c, json) ==
  IF ~json.hasPost THEN NHThrow(c, "type")              \* post.postTitle
  ELSE NHAwait(c, "chapters", NHChaptersUrl(0))

\* Faulty variant: the loop also continues when skip equals the total.
NHMore_Inclusive(skip, total) == skip <= total

\* `while (skip < totalChapterCount)`
NHMore(skip, total) == skip < total

\* Faulty variant: the loop goes on until a batch comes back empty.
NHAfterChapters_UntilEmptyBatch(c, json) ==
  LET total == OrZero(json.totalChapterCount)
      all == c.chapters \o MapSeq(json.chapters, NHItem)
      skip == c.skip + maxTake
      d == [c EXCEPT !.totalChapterCount = total, !.rawChapters = json.chapters,
                     !.chapters = all, !.skip = skip]
  IN IF json.chapters # <<>> /\ skip < 3 * maxTake
     THEN NHAwait(d, "chapters", NHChaptersUrl(skip))
     ELSE NHResolve([d EXCEPT !.chapters = SortByNumber(all)])

\* one turn of the do-while loop after `await chaptersResponse.json()`
NHAfterChapters(c, json) ==
  LET total == OrZero(json.totalChapterCount)
      all == c.chapters \o MapSeq(json.chapters, NHItem)
      skip == c.skip + maxTake
      d == [c EXCEPT !.totalChapterCount = total, !.rawChapters = json.chapters,
                     !.chapters = all, !.skip = skip]
  IN IF NHMore(skip, total)
     THEN NHAwait(d, "chapters", NHChaptersUrl(skip))
     ELSE NHResolve([d EXCEPT !.chapters = SortByNumber(all)])

\* searchNovels after `await response.json()`: novels only, first of each slug
NHAfterQuery(c, json) ==
  LET posts == json.posts
      keep == {i \in 1..Len(posts) :
                 /\ posts[i].isNovel
                 /\ \A j \in 1..(i - 1) : ~(posts[j].isNovel /\ posts[j].slug = posts[i].slug)}
      F[i \in 0..Len(posts)] ==
        IF i = 0 THEN <<>>
        ELSE IF i \in keep THEN Append(F[i - 1], posts[i].slug) ELSE F[i - 1]
  IN NHResolve([c EXCEPT !.got = IF posts = <<>> THEN "empty" ELSE "list",
                         !.novels = F[Len(posts)]])

NH_json ==
  /\ nh.phase = "json"
  /\ \/ nh' = NHThrow(nh, "parse")
     \/ \E json \in NHJsons(nh.pc, nh.ok) :
          nh' = CASE nh.pc = "post" -> NHAfterPost(nh, json)
                  [] nh.pc = "chapters" -> NHAfterChapters(nh, json)
                  [] nh.pc = "popular" -> NHAfterPopular(nh, json)
                  [] nh.pc = "chapter" -> NHAfterChapter(nh, json)
                  [] OTHER -> NHAfterQuery(nh, json)
  /\ UNCHANGED <<aux, novelIdCache, jade, dt, fj>>

NH_Finish ==
  /\ nh.pc \in {"done", "failed"}
  /\ nh' = NHIdle
  /\ UNCHANGED <<aux, novelIdCache, jade, dt, fj>>

NovelsHubNext ==
  \/ \E path \in Paths : NH_parseNovel(path)
  \/ \E term \in Terms, pageNo \in PageNos : NH_searchNovels(term, pageNo)
  \/ NH_fetchApi
  \/ NH_json
  \/ NH_Finish

\* -------------------------------------------- Dreamy Translations: the code
DTAwait(c, pc, url) == [c EXCEPT !.pc = pc, !.requests = Append(@, url)]
DTThrow(c, err) == [c EXCEPT !.pc = "failed", !.error = err]
DTResolve(c) == [c EXCEPT !.pc = "done"]

\* lines 22-30: the sort key and the switch chosen by the options
DTSortBy(showLatestNovels, sort) ==
  IF showLatestNovels THEN "updates"
  ELSE IF sort # Undefined THEN sort
  ELSE "title"
DTIllustratedOnly(showLatestNovels, sort, illustrated) ==
  IF ~showLatestNovels /\ sort # Undefined THEN illustrated = "true" ELSE FALSE

DTStartPopular(c, pageNo, showLatestNovels, sort, illustrated) ==
  IF pageNo # 1 THEN DTResolve(c)
  ELSE DTAwait([c EXCEPT !.sortBy = DTSortBy(showLatestNovels, sort),
                         !.illustratedOnly = DTIllustratedOnly(showLatestNovels, sort, illustrated)],
               "series", "series")

DT_popularNovels(pageNo, showLatestNovels, sort, illustrated) ==
  /\ dt.op = "idle" /\ JadeIdle /\ nh.op = "idle" /\ fj.phase = "idle" /\ aux.fn = "idle"
  /\ dt' = DTStartPopular([DTIdle EXCEPT !.op = "popularNovels", !.pageNo = pageNo,
                             !.options = [showLatestNovels |-> showLatestNovels,
                                          sort |-> sort, illustrated |-> illustrated]],
                          pageNo, showLatestNovels, sort, illustrated)
  /\ UNCHANGED <<aux, novelIdCache, jade, nh, fj>>

\* searchNovels calls popularNovels(1, {showLatestNovels: false, filters: this.filters}),
\* the declared filters with their default values ('title', false).
DT_searchNovels(term, pageNo) ==
  /\ dt.op = "idle" /\ JadeIdle /\ nh.op = "idle" /\ fj.phase = "idle" /\ aux.fn = "idle"
  /\ LET c == [DTIdle EXCEPT !.op = "searchNovels", !.pageNo = pageNo, !.term = term,
                  !.options = [showLatestNovels |-> FALSE, sort |-> "title",
                               illustrated |-> "false"]]
     IN dt' = IF pageNo # 1 THEN DTResolve(c)
              ELSE DTStartPopular(c, 1, FALSE, "title", "false")
  /\ UNCHANGED <<aux, novelIdCache, jade, nh, fj>>

DT_parseNovel(path) ==
  /\ dt.op = "idle" /\ JadeIdle /\ nh.op = "idle" /\ fj.phase = "idle" /\ aux.fn = "idle"
  /\ dt' = DTAwait([DTIdle EXCEPT !.op = "parseNovel"], "novel", "novel")
  /\ UNCHANGED <<aux, novelIdCache, jade, nh, fj>>

DT_parseChapter(path) ==
  /\ dt.op = "idle" /\ JadeIdle /\ nh.op = "idle" /\ fj.phase = "idle" /\ aux.fn = "idle"
  /\ dt' = DTAwait([DTIdle EXCEPT !.op = "parseChapter"], "chapter", "chapter")
  /\ UNCHANGED <<aux, novelIdCache, jade, nh, fj>>

\* `await fetchApi(url)` of the page settles
DT_fetchApi ==
  /\ dt.pc \in {"series", "novel", "chapter"}
  /\ \/ dt' = DTThrow(dt, "network")
     \/ dt' = [dt EXCEPT !.pc = CASE dt.pc = "series" -> "seriesText"
                                  [] dt.pc = "novel" -> "novelText"
                                  [] OTHER -> "chapterText"]
  /\ UNCHANGED <<aux, novelIdCache, jade, nh, fj>>

\* uniqueNovels: the first record of each slug
DTUnique(records) ==
  SelectSeq([i \in 1..Len(records) |-> [r |-> records[i], i |-> i]],
            LAMBDA e : \A j \in 1..(e.i - 1) : records[j].slug # e.r.slug)

DTCount(counts, id) ==
  IF \E e \in counts : e[1] = id THEN (CHOOSE e \in counts : e[1] = id)[2] ELSE 0

\* a.localeCompare(b) on the titles of the fixtures
localeCompare(a, b) ==
  LET rank(t) == CASE t = "A" -> 1 [] t = "B" -> 2 [] OTHER -> 3
  IN rank(a) - rank(b)

\* the comparator of filteredNovels.sort: negative when a goes before b
DTCompare(sortBy, counts, a, b) ==
  CASE sortBy = "chapters" -> b.totalChapters - a.totalChapters
    [] sortBy = "views" -> b.viewCount - a.viewCount
    [] sortBy = "updates" -> b.lastUpdatedAt - a.lastUpdatedAt
    [] sortBy = "illustrations" -> DTCount(counts, b.id) - DTCount(counts, a.id)
    [] OTHER -> localeCompare(a.title, b.title)

RECURSIVE DTInsert(_, _, _, _)
DTInsert(sorted, x, sortBy, counts) ==
  IF sorted = <<>> THEN <<x>>
  ELSE IF DTCompare(sortBy, counts, Head(sorted), x) <= 0
       THEN <<Head(sorted)>> \o DTInsert(Tail(sorted), x, sortBy, counts)
       ELSE <<x>> \o sorted

RECURSIVE DTSort(_, _, _)
DTSort(s, sortBy, counts) ==
  IF s = <<>> THEN <<>>
  ELSE DTInsert(DTSort(SubSeq(s, 1, Len(s) - 1), sortBy, counts), s[Len(s)], sortBy, counts)

\* novel.name.toLowerCase().includes(searchLower), on the one-letter titles of
\* the fixtures and search terms of at most one letter
toLowerCase(t) == CASE t = "A" -> "a" [] t = "B" -> "b" [] t = "C" -> "c" [] OTHER -> t
includes(name, term) == term = "" \/ name = term

\* lines 105-147: dedupe, filter, sort and map the decoded records
DTList(c) ==
  LET unique == MapSeq(DTUnique(c.body), LAMBDA e : e.r)
      filtered == IF c.illustratedOnly /\ c.haveCounts
                  THEN SelectSeq(unique, LAMBDA n : \E e \in c.illustrationCounts : e[1] = n.id)
                  ELSE unique
      sorted == DTSort(filtered, c.sortBy, c.illustrationCounts)
      all == MapSeq(sorted, LAMBDA n : [name |-> n.title, path |-> n.slug, id |-> n.id])
  IN DTResolve([c EXCEPT !.novels =
       IF c.op = "searchNovels"
       THEN SelectSeq(all, LAMBDA n : includes(toLowerCase(n.name), toLowerCase(c.term)))
       ELSE all])

\* `await response.text()` of the series page settles
DT_seriesText ==
  /\ dt.pc = "seriesText"
  /\ \/ dt' = DTThrow(dt, "network")
     \/ \E body \in DTSeriesBodies :
          LET c == [dt EXCEPT !.body = body, !.got = IF body = <<>> THEN "empty" ELSE "list"]
          IN dt' = IF c.illustratedOnly \/ c.sortBy = "illustrations"
                   THEN DTAwait(c, "counts", "api/illustration-counts")
                   ELSE DTList(c)
  /\ UNCHANGED <<aux, novelIdCache, jade, nh, fj>>

\* the illustration-counts fetch inside try/catch: a network failure, a response
\* that is not ok and a body that is not JSON all leave illustrationCounts null
DT_illustrationCounts ==
  /\ dt.pc = "counts"
  /\ \/ dt' = DTList([dt EXCEPT !.failed = TRUE])
     \/ dt' = DTList(dt)
     \/ \E counts \in DTCounts :
          dt' = DTList([dt EXCEPT !.haveCounts = TRUE, !.illustrationCounts = counts])
  /\ UNCHANGED <<aux, novelIdCache, jade, nh, fj>>

\* Faulty variant: the last entry of each chapterNumber is kept.
DTUniqueChapters_KeepLast(chapters) ==
  LET idx == [i \in 1..Len(chapters) |-> [ch |-> chapters[i], i |-> i]]
  IN MapSeq(SelectSeq(idx, LAMBDA e :
              \A j \in (e.i + 1)..Len(chapters) :
                chapters[j].chapterNumber # e.ch.chapterNumber),
            LAMBDA e : e.ch)

\* lines 247-253: first entry of each chapterNumber, then ascending
DTUniqueChapters(chapters) ==
  LET idx == [i \in 1..Len(chapters) |-> [ch |-> chapters[i], i |-> i]]
      FindIndex(n) == CHOOSE i \in 1..Len(chapters) :
                        /\ chapters[i].chapterNumber = n
                        /\ \A j \in 1..(i - 1) : chapters[j].chapterNumber # n
  IN MapSeq(SelectSeq(idx, LAMBDA e : e.i = FindIndex(e.ch.chapterNumber)), LAMBDA e : e.ch)

\* lines 221-245: the published entries, in body order
DTChapters(entries) ==
  MapSeq(SelectSeq(entries, LAMBDA e : e.status = "published"),
         LAMBDA e : [name |-> <<"Chapter", e.index, e.title>>, chapterNumber |-> e.index])

\* `await response.text()` of the novel page settles
DT_novelText ==
  /\ dt.pc = "novelText"
  /\ \/ dt' = DTThrow(dt, "network")
     \/ \E body \in DTNovelBodies :
          dt' = DTResolve([dt EXCEPT !.entries = body, !.chapters =
                  SortByNumber(DTUniqueChapters(DTChapters(body)))])
  /\ UNCHANGED <<aux, novelIdCache, jade, nh, fj>>

\* parseChapter after `await response.text()`
DT_chapterText ==
  /\ dt.pc = "chapterText"
  /\ \/ dt' = DTThrow(dt, "network")
     \/ \E body \in DTChapterBodies :
          dt' = DTResolve([dt EXCEPT
            !.got = IF body.prose = "long" \/ body.embedded = "long" THEN "content" ELSE "empty",
            !.html = IF body.prose = "long" THEN "prose html"
                     ELSE IF body.embedded = "long" THEN "<p>paragraphs</p>"
                     ELSE "Chapter content not available."])
  /\ UNCHANGED <<aux, novelIdCache, jade, nh, fj>>

DT_Finish ==
  /\ dt.pc \in {"done", "failed"}
  /\ dt' = DTIdle
  /\ UNCHANGED <<aux, novelIdCache, jade, nh, fj>>

DreamyNext ==
  \/ \E pageNo \in PageNos, latest \in BOOLEAN, sort \in DTSorts, ill \in DTSwitch :
       DT_popularNovels(pageNo, latest, sort, ill)
  \/ \E term \in {"", "A"}, pageNo \in PageNos : DT_searchNovels(term, pageNo)
  \/ \E path \in Paths : DT_parseNovel(path)
  \/ DT_fetchApi
  \/ DT_seriesText
  \/ DT_illustrationCounts
  \/ DT_novelText
  \/ DT_Finish

\* ------------------------------------------------------- helper functions
AllIdle == JadeIdle /\ nh.op = "idle" /\ dt.op = "idle" /\ fj.phase = "idle" /\ aux.fn = "idle"

\* A helper is called with arg and returns out.
Call(fn, arg, out) ==
  /\ aux.fn = "idle" /\ AllIdle
  /\ aux' = [fn |-> fn, arg |-> arg, out |-> out]
  /\ UNCHANGED <<novelIdCache, jade, nh, dt, fj>>

Aux_Finish ==
  /\ aux.fn # "idle"
  /\ aux' = AuxIdle
  /\ UNCHANGED <<novelIdCache, jade, nh, dt, fj>>

\* The status strings an upstream record carries; Undefined when it has none.
\* "constructor" and "toString" are names every JavaScript object inherits.
UpstreamStatuses ==
  {Undefined, "HIATUS", "ONGOING", "COMPLETED", "DROPPED", "hiatus", "Ongoing",
   "FOO", "", "constructor", "toString"}

\* String.prototype.toUpperCase on the status strings
toUpperCase(t) ==
  CASE t = "hiatus" -> "HIATUS"
    [] t = "Ongoing" -> "ONGOING"
    [] t = "constructor" -> "CONSTRUCTOR"
    [] t = "toString" -> "TOSTRING"
    [] OTHER -> t

\* NovelsHubPlugin.parseStatus: switch (status?.toUpperCase())
parseStatus(status) ==
  LET key == IF status = Undefined THEN Undefined ELSE toUpperCase(status)
  IN CASE key = "ONGOING" -> "Ongoing"
       [] key = "COMPLETED" -> "Completed"
       [] key = "HIATUS" -> "OnHiatus"
       [] OTHER -> "Unknown"

\* The own properties of the object literal releaseStatusMap.
releaseStatusMap ==
  [k \in {"COMPLETED", "ONGOING", "HIATUS", "DROPPED"} |->
     CASE k = "COMPLETED" -> "Completed"
       [] k = "ONGOING" -> "Ongoing"
       [] k = "HIATUS" -> "OnHiatus"
       [] OTHER -> "Cancelled"]

\* The properties an object literal inherits from Object.prototype (functions).
ObjectPrototype ==
  [k \in {"constructor", "toString", "valueOf", "hasOwnProperty"} |->
     CASE k = "constructor" -> "function Object"
       [] k = "toString" -> "function toString"
       [] k = "valueOf" -> "function valueOf"
       [] OTHER -> "function hasOwnProperty"]

\* releaseStatusMap[key]: own property, else inherited property, else undefined
Lookup(key) ==
  IF key \in DOMAIN releaseStatusMap THEN releaseStatusMap[key]
  ELSE IF key \in DOMAIN ObjectPrototype THEN ObjectPrototype[key]
  ELSE Undefined

\* releaseStatusMap[novel.metadata?.release_status] || NovelStatus.Unknown
releaseStatus(status) ==
  IF Lookup(status) = Undefined THEN "Unknown" ELSE Lookup(status)

\* Strings are sequences of characters.
BS == "\\"
QUOTE == "\""
NL == "\n"
CR == "\r"
TAB == "\t"

\* String.prototype.replace(/pat/g, by): every match, left to right.
RECURSIVE ReplaceAll(_, _, _)
ReplaceAll(text, pat, by) ==
  IF Len(text) < Len(pat) THEN text
  ELSE IF SubSeq(text, 1, Len(pat)) = pat
       THEN by \o ReplaceAll(SubSeq(text, Len(pat) + 1, Len(text)), pat, by)
       ELSE <<Head(text)>> \o ReplaceAll(Tail(text), pat, by)

HexDigits ==
  {"0", "1", "2", "3", "4", "5", "6", "7", "8", "9",
   "a", "b", "c", "d", "e", "f", "A", "B", "C", "D", "E", "F"}

\* String.fromCharCode(parseInt(hex, 16)), on the code points the inputs use
fromCharCode(hex) ==
  CASE hex = <<"0", "0", "6", "1">> -> "a"
    [] hex = <<"0", "0", "0", "a">> -> NL
    [] hex = <<"0", "0", "5", "c">> -> BS
    [] OTHER -> "U+aaaa"

\* replace(/\\u([0-9a-fA-F]{4})/g, (_, hex) => String.fromCharCode(...))
RECURSIVE ReplaceUnicode(_)
ReplaceUnicode(text) ==
  IF Len(text) < 6 THEN text
  ELSE IF /\ text[1] = BS /\ text[2] = "u"
          /\ \A i \in 3..6 : text[i] \in HexDigits
       THEN <<fromCharCode(SubSeq(text, 3, 6))>> \o ReplaceUnicode(SubSeq(text, 7, Len(text)))
       ELSE <<Head(text)>> \o ReplaceUnicode(Tail(text))

\* DreamyTranslationsPlugin.unescapeJson: the eleven replacements, in order
unescapeJson(text) ==
  LET t1 == ReplaceAll(text, <<BS, BS, "n">>, <<NL>>)
      t2 == ReplaceAll(t1, <<BS, BS, "r">>, <<CR>>)
      t3 == ReplaceAll(t2, <<BS, BS, "t">>, <<TAB>>)
      t4 == ReplaceAll(t3, <<BS, BS, QUOTE>>, <<QUOTE>>)
      t5 == ReplaceAll(t4, <<BS, BS, BS, BS>>, <<BS, BS>>)
      t6 == ReplaceAll(t5, <<BS, "n">>, <<NL>>)
      t7 == ReplaceAll(t6, <<BS, "r">>, <<CR>>)
      t8 == ReplaceAll(t7, <<BS, "t">>, <<TAB>>)
      t9 == ReplaceAll(t8, <<BS, QUOTE>>, <<QUOTE>>)
      t10 == ReplaceAll(t9, <<BS, BS>>, <<BS>>)
  IN ReplaceUnicode(t10)

\* JSON.stringify of a string, without the enclosing quotes: how the upstream
\* writes a string into the embedded JSON.
RECURSIVE escapeJson(_)
escapeJson(text) ==
  IF text = <<>> THEN <<>>
  ELSE (CASE Head(text) = BS -> <<BS, BS>>
          [] Head(text) = QUOTE -> <<BS, QUOTE>>
          [] Head(text) = NL -> <<BS, "n">>
          [] Head(text) = CR -> <<BS, "r">>
          [] Head(text) = TAB -> <<BS, "t">>
          [] OTHER -> <<Head(text)>>) \o escapeJson(Tail(text))

\* longest string given to unescapeJson before escaping
MaxLen == 3
Alphabet == {BS, QUOTE, NL, "n", "a"}
Strings == SeqsUpTo(Alphabet, MaxLen)
\* The texts unescapeJson is called with: plain strings, escaped strings, and
\* texts holding a \u escape.
UnescapeInputs ==
  Strings \cup {escapeJson(t) : t \in Strings}
  \cup {<<BS, "u", "0", "0", "6", "1">>, <<"a", BS, "u", "a", "a", "a", "a">>}

DT_unescapeJson ==
  \E text \in UnescapeInputs : Call("unescapeJson", text, unescapeJson(text))

\* ---- the series page body of Dreamy Translations, as a sequence of pieces:
\* an anchor candidate \"id\":N,\"title\":\"...\",\"slug\":\"...\", the same
\* text without its opening \" (it borrows the closing \" of the piece before),
\* a secondary field followed by a comma, or other text; each piece has its
\* length in characters.
Anchor(id, title, slug) ==
  [kind |-> "anchor", id |-> id, title |-> title, slug |-> slug, value |-> 0, len |-> 50]
AnchorTail(id, title, slug) ==
  [kind |-> "tail", id |-> id, title |-> title, slug |-> slug, value |-> 0, len |-> 48]
Field(kind, value) ==
  [kind |-> kind, id |-> "", title |-> <<>>, slug |-> "", value |-> value, len |-> 30]
Filler(len) ==
  [kind |-> "text", id |-> "", title |-> <<>>, slug |-> "", value |-> 0, len |-> len]

\* the look-ahead window, in characters
WindowSize == 2000

DTPieces ==
  { Anchor("7", <<"A", BS, BS, "n", "B">>, "a-b"),
    Anchor("7", <<"A", "B">>, "a-b"),
    Anchor("8", <<"C">>, "c"),
    AnchorTail("8", <<"C">>, "c"),
    Field("total_chapters", 3),
    Field("total_chapters", 5),
    Field("view_count", 4),
    Field("last_updated_at", 6),
    Field("cover", 1),
    Filler(WindowSize) }
\* most pieces in one body
MaxPieces == 4
DTPageBodies == SeqsUpTo(DTPieces, MaxPieces)

\* the character offset of piece i
RECURSIVE Offset(_, _)
Offset(body, i) == IF i = 1 THEN 0 ELSE Offset(body, i - 1) + body[i - 1].len

\* [^\\]+ : one or more characters, none a backslash
NoBackslash(text) == text # <<>> /\ \A i \in 1..Len(text) : text[i] # BS

\* the pieces whose last two characters are \"
EndsQuote(piece) == piece.kind \in {"anchor", "tail"}

\* the anchor text of piece i occurs in the body: always for an anchor piece,
\* for a tail piece when the piece before supplies the opening \"
Occurs(body, i) ==
  \/ body[i].kind = "anchor"
  \/ body[i].kind = "tail" /\ i > 1 /\ EndsQuote(body[i - 1])

\* the character offset where the anchor text of piece i starts
Start(body, i) == IF body[i].kind = "tail" THEN Offset(body, i) - 2 ELSE Offset(body, i)

\* body.match(/\\"id\\":\d+,\\"title\\":\\"[^\\]+\\",\\"slug\\":\\"[^\\]+\\"/g):
\* the pieces the anchor pattern matches, scanning left to right; a match
\* consumes its text, so the \" that closes a match opens no other match
novelMatches(body) ==
  LET M[i \in 0..Len(body)] ==
        IF i = 0 THEN {}
        ELSE IF /\ Occurs(body, i) /\ NoBackslash(body[i].title)
                /\ (body[i].kind = "tail" => (i - 1) \notin M[i - 1])
             THEN M[i - 1] \cup {i}
             ELSE M[i - 1]
  IN M[Len(body)]

\* body.indexOf(novelStr): the offset of the first place where the matched text
\* occurs, matched there or not
indexOf(body, i) ==
  LET same == {j \in 1..Len(body) :
                 /\ Occurs(body, j) /\ body[j].id = body[i].id
                 /\ body[j].title = body[i].title /\ body[j].slug = body[i].slug}
  IN Start(body, CHOOSE j \in same : \A k \in same : j <= k)

\* afterMatch.match(/field/): the first piece of that kind that lies within
\* body.substring(idx, idx + 2000); 0 if none
InWindow(body, idx, k) ==
  Offset(body, k) >= idx /\ Offset(body, k) + body[k].len <= idx + WindowSize
FieldMatch(body, idx, kind) ==
  LET found == {k \in 1..Len(body) : InWindow(body, idx, k) /\ body[k].kind = kind}
  IN IF found = {} THEN 0
     ELSE CHOOSE k \in found : \A m \in found : k <= m

\* lines 72-103: the record pushed for the match at piece i
NovelRecord(body, i) ==
  LET idx == indexOf(body, i)
      pick(kind) == FieldMatch(body, idx, kind)
      coverMatch == pick("cover")
      chaptersMatch == pick("total_chapters")
      viewsMatch == pick("view_count")
      updatedMatch == pick("last_updated_at")
  IN [id |-> body[i].id,
      title |-> unescapeJson(body[i].title),
      slug |-> body[i].slug,
      cover |-> IF coverMatch # 0 THEN <<"https:", body[coverMatch].value>>
                ELSE <<"covers", body[i].id>>,
      totalChapters |-> IF chaptersMatch # 0 THEN body[chaptersMatch].value ELSE 0,
      viewCount |-> IF viewsMatch # 0 THEN body[viewsMatch].value ELSE 0,
      lastUpdatedAt |-> IF updatedMatch # 0 THEN body[updatedMatch].value ELSE 0,
      at |-> i]

\* novelsData: one record per match, in body order
novelsData(body) ==
  LET F[i \in 0..Len(body)] ==
        IF i = 0 THEN <<>>
        ELSE IF i \in novelMatches(body) THEN Append(F[i - 1], NovelRecord(body, i))
        ELSE F[i - 1]
  IN F[Len(body)]

\* lines 105-110: the records that survive the filter on seen slugs
uniqueNovels(body) == MapSeq(DTUnique(novelsData(body)), LAMBDA e : e.r)

DT_uniqueNovels ==
  \E body \in DTPageBodies : Call("uniqueNovels", body, uniqueNovels(body))

DT_novelsData ==
  \E body \in DTPageBodies : Call("novelsData", body, novelsData(body))

NH_parseStatus ==
  \E status \in UpstreamStatuses : Call("parseStatus", status, parseStatus(status))

JS_releaseStatus ==
  \E status \in UpstreamStatuses : Call("releaseStatus", status, releaseStatus(status))

HelpersNext ==
  \/ NH_parseStatus
  \/ JS_releaseStatus
  \/ DT_unescapeJson
  \/ DT_novelsData
  \/ DT_uniqueNovels
  \/ Aux_Finish

\* The listing and chapter-content operations of the three plugins; a JadeScrolls
\* call of these shares nothing with other calls, so one call slot is enough.
CatalogNext ==
  \/ \E pageNo \in 1..2, filters \in JadeFilters : JS_popularNovels(1, pageNo, filters)
  \/ \E term \in Terms, pageNo \in PageNos : JS_searchNovels(1, term, pageNo)
  \/ \E path \in Paths : JS_parseChapter(1, path)
  \/ fetchJson(1)
  \/ fetchJsonText(1)
  \/ Finish(1)
  \/ \E pageNo \in 1..2, filters \in NHFilters : NH_popularNovels(pageNo, filters)
  \/ \E term \in Terms, pageNo \in PageNos : NH_searchNovels(term, pageNo)
  \/ \E path \in Paths : NH_parseChapter(path)
  \/ NH_fetchApi
  \/ NH_json
  \/ NH_Finish
  \/ \E pageNo \in PageNos, latest \in BOOLEAN, sort \in DTSorts, ill \in DTSwitch :
       DT_popularNovels(pageNo, latest, sort, ill)
  \/ \E term \in {"", "A"}, pageNo \in PageNos : DT_searchNovels(term, pageNo)
  \/ \E path \in Paths : DT_parseChapter(path)
  \/ DT_fetchApi
  \/ DT_seriesText
  \/ DT_illustrationCounts
  \/ DT_chapterText
  \/ DT_Finish

Next == CatalogNext \/ JadeNext \/ NovelsHubNext \/ DreamyNext \/ FetchJsonNext \/ HelpersNext

Spec == Init /\ [][Next]_vars
SpecJade == Init /\ [][JadeNext]_vars
SpecNovelsHub == Init /\ [][NovelsHubNext]_vars
SpecDreamy == Init /\ [][DreamyNext]_vars
SpecFetchJson == Init /\ [][FetchJsonNext]_vars
SpecCatalog == Init /\ [][CatalogNext]_vars
SpecHelpers == Init /\ [][HelpersNext]_vars

\* The listing operations (popularNovels, searchNovels) of the three plugins.
ListingNext ==
  \/ \E p \in Procs :
       \/ \E term \in Terms, pageNo \in PageNos : JS_searchNovels(p, term, pageNo)
       \/ fetchJson(p)
       \/ fetchJsonText(p)
       \/ Finish(p)
  \/ \E term \in Terms, pageNo \in PageNos : NH_searchNovels(term, pageNo)
  \/ NH_fetchApi
  \/ NH_json
  \/ NH_Finish
  \/ \E pageNo \in PageNos, latest \in BOOLEAN, sort \in DTSorts, ill \in DTSwitch :
       DT_popularNovels(pageNo, latest, sort, ill)
  \/ \E term \in {"", "A"}, pageNo \in PageNos : DT_searchNovels(term, pageNo)
  \/ DT_fetchApi
  \/ DT_seriesText
  \/ DT_illustrationCounts
  \/ DT_Finish
SpecListing == Init /\ [][ListingNext]_vars
\* Every pending await settles sooner or later: the event loop runs the call on.
FairSpecFetchJson == SpecFetchJson /\ WF_vars(FetchJsonNext)
\* ==================================================================== claims
StrictlyAscending(s) ==
  \A i \in 1..(Len(s) - 1) : s[i].chapterNumber < s[i + 1].chapterNumber
Ascending(s) ==
  \A i \in 1..(Len(s) - 1) : s[i].chapterNumber <= s[i + 1].chapterNumber
Occurrences(s, n) == Cardinality({i \in 1..Len(s) : s[i].chapterNumber = n})

\* C1: the chapter list that NovelsHub parseNovel returns is strictly ascending
\* by chapterNumber, so that no chapterNumber occurs twice in it.
C1_StrictlyAscending ==
  (nh.op = "parseNovel" /\ nh.pc = "done") => StrictlyAscending(nh.chapters)

\* The first chapters response of parseNovel has just been read and reports a
\* total of 0 (or none).
C2_FirstTotalZero ==
  /\ nh.op = "parseNovel" /\ nh.pc = "chapters" /\ nh.phase = "json" /\ nh.skip = 0
  /\ nh'.pc # "failed"
  /\ nh'.totalChapterCount = 0
C2_OneFetchIssued ==
  nh'.pc = "done" /\ nh'.requests = <<NHPostUrl("p1"), NHChaptersUrl(0)>>

\* C2 (as stated): when the first chapters response reports totalChapterCount 0
\* or omits it, exactly one chapters fetch (skip = 0) is issued and the returned
\* chapter list is empty.
C2_EmptyList ==
  [][C2_FirstTotalZero => (C2_OneFetchIssued /\ nh'.chapters = <<>>)]_vars

\* C2 (amended): when the first chapters response reports totalChapterCount 0 or
\* omits it, exactly one chapters fetch (skip = 0) is issued and the returned
\* list holds the chapters of that response, ascending: empty when it has none.
C2_OneFetch ==
  [][C2_FirstTotalZero =>
       /\ C2_OneFetchIssued
       /\ Len(nh'.chapters) = Len(nh'.rawChapters)
       /\ Ascending(nh'.chapters)
       /\ \A n \in 1..(MaxNumber + 1) :
            Occurrences(nh'.chapters, n) =
              Cardinality({i \in 1..Len(nh'.rawChapters) : nh'.rawChapters[i] = n})]_vars

C2_Witness ==
  /\ nh.op = "parseNovel" /\ nh.pc = "done"
  /\ nh.skip = maxTake /\ nh.totalChapterCount = 0
  /\ Len(nh.requests) = 2 /\ nh.chapters # <<>>

\* C3: once a chapters fetch after the first has ended in a network or HTTP
\* error, parseNovel does not return a novel.
C3_FailurePropagates ==
  (nh.op = "parseNovel" /\ nh.errAt > 1) => nh.pc # "done"

\* C4: a call of an unpaginated operation with a page number above 1 has
\* returned the empty list and has issued no request.
C4_LaterPagesEmpty ==
  /\ \A p \in Procs :
       (jade[p].op = "searchNovels" /\ jade[p].pageNo > 1) =>
         /\ jade[p].pc = "done" /\ jade[p].phase = "none"
         /\ jade[p].calls = <<>> /\ jade[p].novels = <<>>
  /\ (nh.op = "searchNovels" /\ nh.pageNo > 1) =>
       (nh.pc = "done" /\ nh.phase = "none" /\ nh.requests = <<>> /\ nh.novels = <<>>)
  /\ (dt.op \in {"popularNovels", "searchNovels"} /\ dt.pageNo > 1) =>
       (dt.pc = "done" /\ dt.requests = <<>> /\ dt.novels = <<>>)

C4_Witness ==
  /\ jade[1].op = "searchNovels" /\ jade[1].pageNo = 2 /\ jade[1].pc = "done"
  /\ jade[1].calls = <<>> /\ jade[1].novels = <<>>
  /\ jade[2].op = "searchNovels" /\ jade[2].pageNo = 1 /\ jade[2].phase = "text"

\* C5: parsePage with no cached id issues one detail fetch for the path, stores
\* the id it returns under the path and asks for the chapter list with that id;
\* with a cached id it issues no detail fetch and asks with the cached id.
C5_Start(p) ==
  (jade[p].op = "idle" /\ jade'[p].op = "parsePage") =>
    LET d == jade'[p]
        cached == novelIdCache[d.path]
    IN /\ d.phase = "fetch"
       /\ novelIdCache' = novelIdCache
       /\ IF cached = Undefined
          THEN d.pc = "detail" /\ d.calls = <<DetailUrl(d.path)>>
          ELSE d.pc = "chapters" /\ d.calls = <<ListUrl(cached, d.page)>>
C5_DetailReturned(p) ==
  /\ jade[p].op = "parsePage" /\ jade[p].pc = "detail" /\ jade'[p].pc # "detail"
  /\ ~(jade'[p].pc = "failed" /\ jade'[p].error \in {"network", "parse"})
C5_AfterDetail(p) ==
  C5_DetailReturned(p) =>
    LET d == jade'[p]
    IN /\ d.pc = "chapters" /\ d.phase = "fetch"
       /\ d.novelId \in {UpstreamId(d.path), Undefined}
       /\ novelIdCache'[d.path] = d.novelId
       /\ d.calls = <<DetailUrl(d.path), ListUrl(d.novelId, d.page)>>
C5_CacheMissResolves ==
  [][\A p \in Procs : C5_Start(p) /\ C5_AfterDetail(p)]_vars

C5_Witness ==
  \E p, q \in Procs :
    /\ jade[p].op = "parsePage" /\ jade[p].pc = "chapters"
    /\ jade[p].calls = <<DetailUrl("p1"), ListUrl("id1", jade[p].page)>>
    /\ jade[q].op = "parsePage" /\ jade[q].pc = "chapters"
    /\ jade[q].calls = <<ListUrl("id1", jade[q].page)>>

\* A detail fetch of call p returns the empty payload in this step.
EmptyDetailStep(p) ==
  /\ jade[p].pc = "detail" /\ jade'[p].pc # "detail"
  /\ jade'[p].novelId = Undefined
  /\ \/ jade'[p].pc = "chapters"
     \/ jade'[p].pc = "failed" /\ jade'[p].error = "type"

\* C6: while every detail answer for a path carries the one id the upstream
\* holds for it, under every interleaving of parseNovel and parsePage calls
\* every chapter-list request for the path uses that id and the cache entry of
\* the path, once written, keeps that id.
C6_OneId ==
  [][\A path \in Paths :
       /\ novelIdCache'[path] \in {Undefined, UpstreamId(path)}
       /\ (novelIdCache[path] # Undefined /\ novelIdCache'[path] # novelIdCache[path]) =>
            \E p \in Procs : jade[p].path = path /\ EmptyDetailStep(p)
       /\ \A p \in Procs :
            (jade'[p].path = path /\ jade'[p].pc = "chapters" /\ jade[p].pc # "chapters"
             /\ ~EmptyDetailStep(p)) =>
              /\ jade'[p].url = ListUrl(UpstreamId(path), jade'[p].url[3])
              /\ jade'[p].calls[Len(jade'[p].calls)] = jade'[p].url]_vars

C6_Witness ==
  \E p, q \in Procs :
    /\ jade[p].op = "parseNovel" /\ jade[q].op = "parsePage"
    /\ jade[p].path = "p2" /\ jade[q].path = "p2"
    /\ jade[p].pc = "chapters" /\ jade[q].pc = "chapters"
    /\ Len(jade[q].calls) = 2
    /\ jade[q].novelId = "id2"
    /\ novelIdCache["p2"] = "id2"

\* C7: a fetchJson call that has issued a request completes: it returns or
\* throws, whatever chain of redirects the upstream answers with.
C7_Completes ==
  (fj.phase \in {"fetch", "text"}) ~> (fj.phase \in {"returned", "threw"})

\* The response fetchJson last received has status 304 or content-length '0', or
\* the body it last read is empty.
C8_NoData ==
  /\ fj.res.net = "resolved"
  /\ fj.res.status = 304 \/ fj.res.contentLength = "0" \/ fj.text.kind = "empty"
C8_ReturnsEmpty ==
  fj.phase = "returned" /\ fj.value = EmptyObj /\ ~fj.parsed /\ fj.error = "none"

\* C8 (as stated): on a response with status 304, content-length '0' or an empty
\* body, fetchJson returns the empty object without parsing and without error.
C8_EveryResponse == C8_NoData => C8_ReturnsEmpty

\* C8 (amended): on a response that is not a 3xx response with a location header
\* (which is followed as a redirect first) and that has status 304,
\* content-length '0' or an empty body, fetchJson returns the empty object
\* without parsing and without error.
C8_EmptyPayload == (C8_NoData /\ ~IsRedirect(fj.res)) => C8_ReturnsEmpty

C8_Witness ==
  /\ fj.phase = "returned" /\ fj.res.net = "resolved"
  /\ fj.res.status = 304 /\ fj.res.location = NoHeader /\ fj.res.contentLength = NoHeader
  /\ fj.url = LocationUrl("locB")

\* C9: the chapter list Dreamy Translations parseNovel returns is strictly
\* ascending by chapterNumber and each of its entries is the first published
\* entry of the page body with that chapterNumber.
C9_FirstOccurrence(ch) ==
  \E k \in 1..Len(dt.entries) :
    /\ dt.entries[k].status = "published"
    /\ dt.entries[k].index = ch.chapterNumber
    /\ ch.name = <<"Chapter", dt.entries[k].index, dt.entries[k].title>>
    /\ \A j \in 1..(k - 1) :
         ~(dt.entries[j].status = "published" /\ dt.entries[j].index = ch.chapterNumber)
C9_UniqueAscending ==
  (dt.op = "parseNovel" /\ dt.pc = "done") =>
    /\ StrictlyAscending(dt.chapters)
    /\ \A i \in 1..Len(dt.chapters) : C9_FirstOccurrence(dt.chapters[i])

C9_Witness ==
  /\ dt.op = "parseNovel" /\ dt.pc = "done"
  /\ Len(dt.entries) = 3
  /\ dt.entries[1].index = 2 /\ dt.entries[2].index = 1 /\ dt.entries[3].index = 2
  /\ dt.entries[1].title # dt.entries[3].title
  /\ Len(dt.chapters) = 2

\* C10: the chapter list JadeScrolls parseNovel and parsePage return is
\* ascending by chapterNumber without a duplicate chapterNumber.
C10_SortedUnique ==
  \A p \in Procs :
    (jade[p].op \in {"parseNovel", "parsePage"} /\ jade[p].pc = "done") =>
      StrictlyAscending(jade[p].chapters)

\* C11: the release-status mapping of NovelsHub parseNovel and of JadeScrolls
\* parseNovel maps "HIATUS" to OnHiatus and every status string outside its
\* mapped set, and an absent status, to Unknown.
C11_Unmapped(fn, status) ==
  IF fn = "parseStatus"
  THEN toUpperCase(status) \notin {"ONGOING", "COMPLETED", "HIATUS"}
  ELSE status \notin {"ONGOING", "COMPLETED", "HIATUS", "DROPPED"}
C11_UnmappedIsUnknown ==
  (aux.fn \in {"parseStatus", "releaseStatus"}) =>
    /\ (aux.arg = "HIATUS") => (aux.out = "OnHiatus")
    /\ C11_Unmapped(aux.fn, aux.arg) => (aux.out = "Unknown")

\* C13: unescapeJson returns a text that holds no escape sequence (no
\* backslash) unchanged, and applied to the JSON-escaped form of a string over
\* printable characters, quotes, backslashes and newlines it returns that string.
C13_Unescaped(text) == \A i \in 1..Len(text) : text[i] # BS
C13_RoundTrip ==
  (aux.fn = "unescapeJson") =>
    /\ C13_Unescaped(aux.arg) => (aux.out = aux.arg)
    /\ \A t \in Strings : (aux.arg = escapeJson(t)) => (aux.out = t)

\* C12: a body with one anchor (id 7, a title holding a double-escaped newline
\* between A and B, slug a-b) followed within the window by total_chapters 3
\* decodes to exactly one record: id "7", title A<newline>B, slug a-b,
\* totalChapters 3.
C12_Fixture ==
  <<Anchor("7", <<"A", BS, BS, "n", "B">>, "a-b"), Field("total_chapters", 3)>>
C12_DecodesFixture ==
  (aux.fn = "novelsData" /\ aux.arg = C12_Fixture) =>
    /\ Len(aux.out) = 1
    /\ aux.out[1].id = "7" /\ aux.out[1].title = <<"A", NL, "B">>
    /\ aux.out[1].slug = "a-b" /\ aux.out[1].totalChapters = 3

\* C14: popularNovels and searchNovels on page 1 return the empty list, without
\* an error, when the upstream response carries no records (an empty payload
\* object, or a body with no anchor match).
C14_EmptyListing ==
  /\ \A p \in Procs :
       (jade[p].op \in {"popularNovels", "searchNovels"} /\ jade[p].pageNo = 1
        /\ jade[p].got = "empty") =>
         (jade[p].pc = "done" /\ jade[p].novels = <<>>)
  /\ (nh.op \in {"popularNovels", "searchNovels"} /\ nh.pageNo = 1 /\ nh.got = "empty") =>
       (nh.pc = "done" /\ nh.novels = <<>>)
  /\ (dt.op \in {"popularNovels", "searchNovels"} /\ dt.pageNo = 1 /\ dt.got = "empty") =>
       (dt.pc # "failed" /\ dt.novels = <<>>)

\* C15: parseChapter on a fetched response in which no chapter body is found
\* returns a non-empty placeholder string and does not raise.
C15_Placeholder ==
  /\ \A p \in Procs :
       (jade[p].op = "parseChapter" /\ jade[p].got = "empty") =>
         (jade[p].pc = "done" /\ jade[p].html # <<>>)
  /\ (nh.op = "parseChapter" /\ nh.got = "empty") => (nh.pc = "done" /\ nh.html # "")
  /\ (dt.op = "parseChapter" /\ dt.got = "empty") => (dt.pc = "done" /\ dt.html # "")

\* The declared default values of the filters.
C16_JadeDefaults(f) ==
  [sort |-> IF f.sort = Undefined THEN "weekly_views" ELSE f.sort,
   genre |-> IF f.genre = Undefined THEN "" ELSE f.genre,
   novelLead |-> IF f.novelLead = Undefined THEN "" ELSE f.novelLead,
   type |-> IF f.type = Undefined THEN "" ELSE f.type]
C16_NHDefaults(f) ==
  [status |-> IF f.status = Undefined THEN "" ELSE f.status,
   genres |-> IF f.genres.has THEN f.genres ELSE Genres(<<>>)]

\* C16: a popularNovels call in which a filter is absent issues the request, and
\* takes the decisions, of the call in which that filter has its declared default.
C16_AbsentIsDefault ==
  /\ \A p \in Procs :
       (jade[p].op = "popularNovels") =>
         jade[p].params = ListParams(jade[p].pageNo, C16_JadeDefaults(jade[p].filters))
  /\ (nh.op = "popularNovels") =>
       nh.params = NHParams(nh.pageNo, C16_NHDefaults(nh.filters))
  /\ (dt.op = "popularNovels" /\ dt.pageNo = 1) =>
       LET o == dt.options
       IN /\ (o.sort = Undefined) =>
               /\ dt.sortBy = DTSortBy(o.showLatestNovels, "title")
               /\ dt.illustratedOnly =
                    DTIllustratedOnly(o.showLatestNovels, "title", o.illustrated)
          /\ (o.illustrated = Undefined) =>
               /\ dt.sortBy = DTSortBy(o.showLatestNovels, o.sort)
               /\ dt.illustratedOnly = DTIllustratedOnly(o.showLatestNovels, o.sort, "false")

\* C17: an operation in which a fetch ended in a network or HTTP failure does
\* not return a normal result.
C17_NoResultAfterFailure ==
  /\ dt.failed => (dt.pc # "done")
  /\ (nh.op # "idle" /\ ~nh.ok) => (nh.pc # "done")

\* C18: every novel that popularNovels returns has a non-empty cover.
C18_CoverPresent ==
  \A p \in Procs :
    (jade[p].op = "popularNovels" /\ jade[p].pc = "done") =>
      \A i \in 1..Len(jade[p].novels) : Truthy(jade[p].novels[i].cover)

\* The requests of a parseNovel call: the post request, then the k-th chapters
\* request with skip = 999 * (k - 1) and take = 999; at most
\* max(1, ceil(T / 999)) chapters requests, T the largest total reported.
C19_MaxTotal == CHOOSE t \in Totals : \A u \in Totals : u <= t
C19_MaxFetches ==
  LET n == (C19_MaxTotal + maxTake - 1) \div maxTake IN IF n < 1 THEN 1 ELSE n
C19_Requests ==
  (nh.op = "parseNovel") =>
    /\ \A k \in 1..(Len(nh.requests) - 1) :
         nh.requests[k + 1] = <<"chapters", maxTake * (k - 1), maxTake>>
    /\ Len(nh.requests) - 1 <= C19_MaxFetches
    /\ (nh.pc = "chapters") => (nh.skip = maxTake * (Len(nh.requests) - 2))
\* After the k-th chapters response a further request is issued if and only if
\* 999 * k is less than the total that response reports.
C19_Continues ==
  (nh.op = "parseNovel" /\ nh.pc = "chapters" /\ nh.phase = "json" /\ nh'.pc # "failed") =>
    LET k == Len(nh.requests) - 1
    IN IF maxTake * k < nh'.totalChapterCount
       THEN /\ nh'.pc = "chapters" /\ nh'.phase = "fetch"
            /\ Len(nh'.requests) = Len(nh.requests) + 1
       ELSE nh'.pc = "done" /\ nh'.requests = nh.requests

\* C19: the chapters fetches of NovelsHub parseNovel are issued one at a time,
\* the k-th with skip = 999 * (k - 1) and take = 999; a further fetch follows the
\* k-th response iff 999 * k is less than the total it reports, so the loop
\* stops after at most max(1, ceil(T / 999)) fetches.
C19_SkipTake == [][C19_Requests' /\ C19_Continues]_vars

C19_Witness ==
  /\ nh.op = "parseNovel" /\ nh.pc = "done"
  /\ Len(nh.requests) = 4 /\ nh.totalChapterCount = 1000

\* the value of a secondary field in the window that starts at the offset of
\* the match at piece i; 0 if the window has none
C20_Own(body, i, kind) ==
  LET k == FieldMatch(body, Start(body, i), kind)
  IN IF k = 0 THEN 0 ELSE body[k].value

\* C20: each record of the list Dreamy Translations popularNovels returns has
\* its totalChapters, viewCount, lastUpdatedAt and cover from the 2000-character
\* window that starts at the offset of the match that produced the record, and
\* the default for a field that window lacks.
C20_OwnWindow ==
  (aux.fn = "uniqueNovels") =>
    \A n \in 1..Len(aux.out) :
      LET r == aux.out[n]
      IN /\ r.totalChapters = C20_Own(aux.arg, r.at, "total_chapters")
         /\ r.viewCount = C20_Own(aux.arg, r.at, "view_count")
         /\ r.lastUpdatedAt = C20_Own(aux.arg, r.at, "last_updated_at")
         /\ r.cover = IF FieldMatch(aux.arg, Start(aux.arg, r.at), "cover") = 0
                      THEN <<"covers", r.id>>
                      ELSE <<"https:", C20_Own(aux.arg, r.at, "cover")>>

\* the record of novel 8 has the chapter count of the window that starts where
\* its anchor text first occurs, inside the match of novel 7
C20_ForeignWindow ==
  /\ aux.fn = "uniqueNovels"
  /\ aux.arg = <<Anchor("7", <<"A", "B">>, "a-b"), AnchorTail("8", <<"C">>, "c"),
                 Field("total_chapters", 5), Anchor("8", <<"C">>, "c")>>
  /\ Len(aux.out) = 2 /\ aux.out[2].id = "8" /\ aux.out[2].at = 4
  /\ aux.out[2].totalChapters = 5

\* C21: once novelIdCache maps a novel path to a defined id, no step of a
\* JadeScrolls parseNovel or parsePage call, a failing one included, makes the
\* entry undefined.
C21_CacheEntryKept ==
  [][\A path \in Paths :
       (novelIdCache[path] # Undefined) => (novelIdCache'[path] # Undefined)]_vars

\* C22: with a sort filter selected, the Illustrated Only switch on and
\* showLatestNovels off, every novel Dreamy Translations popularNovels returns
\* has an entry in the illustration counts, whatever the outcome of the
\* illustration-counts fetch.
C22_OnlyIllustrated ==
  (/\ dt.op = "popularNovels" /\ dt.pc = "done"
   /\ ~dt.options.showLatestNovels /\ dt.options.sort # Undefined
   /\ dt.options.illustrated = "true") =>
    \A n \in 1..Len(dt.novels) :
      \E e \in dt.illustrationCounts : e[1] = dt.novels[n].id
====
